---- MODULE Spec2Model ----
(***************************************************************************)
(* CloudLogCollector: the orchestrator (CloudLogCollector.py) and its four *)
(* collectors (gcp_audit_logs, azure_activity_logs, entraid_signin_logs,   *)
(* aws_cloudtrail_events) as one sequential state machine.  The provider   *)
(* SDKs and HTTP endpoints are the environment: the data they hold is      *)
(* fixed by the definitions below, the faults they raise are chosen at     *)
(* each call.                                                              *)
(***************************************************************************)
EXTENDS Integers, Sequences, FiniteSets, TLC

\* ------------------------------------------------------------------ bounds
\* Number of regions describe_regions lists for an account.
MaxRegions == 2
\* Largest number of pages a region's event listing has.
MaxPages == 2
\* Number of subscriptions the Azure identity can see.
MaxSubs == 2
\* Largest number of log entries the GCP organization holds in the window.
MaxEntries == 2
\* Number of times gcp_audit_logs.main is run in SpecGcp.
MaxRuns == 2

\* --------------------------------------------------------- program constants
HTTP_OK == 200
ORCH_MAX_RESULTS == 5000
AccountList == <<"012345678901", "000000000001">>

GCP_FILE == "gcp_audit_logs.json"
AZURE_FILE == "azure_events.json"
ENTRA_FILE == "entra_id_signins.json"
AWS_FILE == "aws_events.json"
FileNames == {GCP_FILE, AZURE_FILE, ENTRA_FILE, AWS_FILE}

Collectors == <<"gcp", "azure", "entra", "aws">>

\* ------------------------------------------------------------- sequences
RECURSIVE Concat(_, _, _)
\* f[lo] \o f[lo+1] \o ... \o f[hi]
Concat(f, lo, hi) == IF lo > hi THEN <<>> ELSE f[lo] \o Concat(f, lo + 1, hi)

Min(a, b) == IF a < b THEN a ELSE b

\* Mutants: the list is replaced by the new items; the new items go in front.
ExtendReplaces(list, items) == items
ExtendAtFront(list, items) == items \o list

\* Python's list.extend: the new items follow the old ones, in their order.
Extend(list, items) == list \o items

\* Python's None where a string is expected, and the truthiness of a string.
None == "None"
StrTruthy(s) == s # None /\ s # ""

\* A file that does not exist, and one left by an earlier run.
\* A Python list as a JSON value (a dict carries its keys, see GraphBody).
PyList(items) == [kind |-> "list", keys |-> <<>>, value |-> items]

\* A file that does not exist, and one left by an earlier run.
Absent == [exists |-> FALSE, data |-> PyList(<<>>)]
Stale == [exists |-> TRUE, data |-> PyList(<<[stale |-> TRUE]>>)]

VARIABLES
    pc,             \* the statement the process is at
    files,          \* file name -> content (Absent when it does not exist)
    files0,         \* the files as they were when the process started
    called,         \* the collector entry points called, in call order
    saved,          \* the save functions that returned normally, in order
    raised,         \* the exception that left the process, or None
    \* gcp_audit_logs
    apiState,       \* remote state of the Cloud Resource Manager API
    enableRequests, \* number of enable requests the project has received
    gcpRun,         \* number of the current run of main
    gcpCalls,       \* SDK calls of the current run of main, in order
    max_results,    \* main's max_results argument
    filter_str,     \* main's filter_str argument
    logs,           \* main's local logs
    gcpError,       \* the exception main's handler logged, or None
    \* azure_activity_logs
    subscriptions,  \* main's local subscriptions
    subIdx,         \* number of subscriptions the for loop has finished
    all_audit_logs, \* main's accumulator
    azReqs,         \* HTTP requests sent, in order
    \* entraid_signin_logs
    entraReqs,      \* HTTP requests sent, in order
    sign_in_logs,   \* what main returned
    \* aws_cloudtrail_events
    acctIdx,        \* index in account_list of the current account
    regions,        \* the current account's region list
    regionIdx,      \* index in regions of the current region
    next_token,     \* the while loop's next_token
    all_events,     \* get_cloudtrail_logs's accumulator
    awsReqs         \* SDK calls made, in order

orchVars == <<pc, files, files0, called, saved, raised>>
gcpVars == <<apiState, enableRequests, gcpRun, gcpCalls, max_results, filter_str, logs, gcpError>>
azVars == <<subscriptions, subIdx, all_audit_logs, azReqs>>
entraVars == <<entraReqs, sign_in_logs>>
awsVars == <<acctIdx, regions, regionIdx, next_token, all_events, awsReqs>>
vars == <<orchVars, gcpVars, azVars, entraVars, awsVars>>

\* An exception nothing catches ends the process with a traceback.
Crash(exc) ==
    /\ pc' = "crashed"
    /\ raised' = exc

\* json.dump(logs, open(filename, 'w')): the file holds exactly logs, whatever
\* it held before.
WriteFile(name, content) ==
    [files EXCEPT ![name] = [exists |-> TRUE, data |-> content]]

\* ============================================================ gcp_audit_logs
\* The exceptions the GCP flow can meet: an SDK call that fails, the plain
\* Exception of get_organization_id, and open() failing in save_audit_logs.
GcpExceptions == {"GoogleAPICallError", "Exception", "OSError"}

\* Mutants: the handler names the SDK's error class alone; main has no handler.
GcpCatchesApiErrorsOnly(exc) == exc = "GoogleAPICallError"
GcpCatchesNothing(exc) == FALSE

\* main's handler, except Exception: every exception of the flow is caught.
GcpCatches(exc) == exc \in GcpExceptions

\* Mutant: the API is enabled whatever state was read.
AlwaysEnable(state) == TRUE

\* enable_api's test of the state it read.
NeedsEnable(state) == state # "ENABLED"

\* The organization's entries of the window, newest first, as entry objects.
GcpEntries(n) == [i \in 1..n |-> [entry |-> n + 1 - i]]

\* entry.to_api_repr()
ToApiRepr(e) == [insertId |-> e.entry]

\* get_audit_logs's filter: the caller's filter, if any, before the time range.
BuildFilter(f) == IF StrTruthy(f) THEN "custom timestamp" ELSE "timestamp"

GcpCall(name, arg, result) == [call |-> name, arg |-> arg, result |-> result]

\* An exception raised inside main's try block.
GcpRaise(exc) ==
    IF GcpCatches(exc)
    THEN /\ gcpError' = exc
         /\ pc' = "gcp_returned"
         /\ UNCHANGED raised
    ELSE /\ Crash(exc)
         /\ UNCHANGED gcpError

\* main is entered: its try block starts with enable_api.
GcpEnter ==
    /\ pc' = "gcp_get_service"
    /\ gcpRun' = gcpRun + 1
    /\ gcpCalls' = <<>>
    /\ logs' = <<>>
    /\ gcpError' = None

\* enable_api: client.get_service reads the API's state.
gcp_get_service ==
    /\ pc = "gcp_get_service"
    /\ \/ /\ gcpCalls' = Append(gcpCalls, GcpCall("get_service", "", apiState))
          /\ pc' = IF NeedsEnable(apiState)
                   THEN "gcp_enable_service" ELSE "gcp_search_organizations"
          /\ UNCHANGED <<raised, gcpError>>
       \/ /\ gcpCalls' = Append(gcpCalls, GcpCall("get_service", "", "raised"))
          /\ GcpRaise("GoogleAPICallError")
    /\ UNCHANGED <<files, files0, called, saved, apiState, enableRequests, gcpRun, max_results,
                   filter_str, logs, azVars, entraVars, awsVars>>

\* enable_api: client.enable_service starts the enable operation.
gcp_enable_service ==
    /\ pc = "gcp_enable_service"
    /\ enableRequests' = enableRequests + 1
    /\ \/ /\ gcpCalls' = Append(gcpCalls, GcpCall("enable_service", "", "operation"))
          /\ pc' = "gcp_operation_result"
          /\ UNCHANGED <<raised, gcpError>>
       \/ /\ gcpCalls' = Append(gcpCalls, GcpCall("enable_service", "", "raised"))
          /\ GcpRaise("GoogleAPICallError")
    /\ UNCHANGED <<files, files0, called, saved, apiState, gcpRun, max_results,
                   filter_str, logs, azVars, entraVars, awsVars>>

\* enable_api: operation.result() blocks until the operation has ended.  A
\* failed or timed-out operation may or may not have enabled the API.
gcp_operation_result ==
    /\ pc = "gcp_operation_result"
    /\ \/ /\ gcpCalls' = Append(gcpCalls, GcpCall("operation.result", "", "done"))
          /\ apiState' = "ENABLED"
          /\ pc' = "gcp_search_organizations"
          /\ UNCHANGED <<raised, gcpError>>
       \/ /\ gcpCalls' = Append(gcpCalls, GcpCall("operation.result", "", "raised"))
          /\ apiState' \in {apiState, "ENABLED"}
          /\ GcpRaise("GoogleAPICallError")
    /\ UNCHANGED <<files, files0, called, saved, enableRequests, gcpRun,
                   max_results, filter_str, logs, azVars, entraVars, awsVars>>

\* The organization listings the credentials may see.
OrgListings == {<<>>, <<"organizations/123">>,
                <<"organizations/456", "organizations/123">>}

\* get_organization_id: the first organization listed, or an Exception.
gcp_get_organization_id ==
    /\ pc = "gcp_search_organizations"
    /\ \/ \E orgs \in OrgListings :
             IF orgs # <<>>
             THEN /\ gcpCalls' = Append(gcpCalls,
                                  GcpCall("search_organizations", "", Head(orgs)))
                  /\ pc' = "gcp_list_entries"
                  /\ UNCHANGED <<raised, gcpError>>
             ELSE /\ gcpCalls' = Append(gcpCalls,
                                  GcpCall("search_organizations", "", "none"))
                  /\ GcpRaise("Exception")
       \/ /\ gcpCalls' = Append(gcpCalls,
                                GcpCall("search_organizations", "", "raised"))
          /\ GcpRaise("GoogleAPICallError")
    /\ UNCHANGED <<files, files0, called, saved, apiState, enableRequests, gcpRun, max_results,
                   filter_str, logs, azVars, entraVars, awsVars>>

\* get_audit_logs: at most max_results entries, newest first, each as its
\* API representation.
gcp_get_audit_logs ==
    /\ pc = "gcp_list_entries"
    /\ \/ \E n \in 0..MaxEntries :
             /\ gcpCalls' = Append(gcpCalls,
                             GcpCall("list_entries", BuildFilter(filter_str), "entries"))
             /\ logs' = [i \in 1..Min(n, max_results) |-> ToApiRepr(GcpEntries(n)[i])]
             /\ pc' = "gcp_save_audit_logs"
             /\ UNCHANGED <<raised, gcpError>>
       \/ /\ gcpCalls' = Append(gcpCalls,
                          GcpCall("list_entries", BuildFilter(filter_str), "raised"))
          /\ GcpRaise("GoogleAPICallError")
          /\ UNCHANGED logs
    /\ UNCHANGED <<files, files0, called, saved, apiState, enableRequests, gcpRun, max_results,
                   filter_str, azVars, entraVars, awsVars>>

\* save_audit_logs, the last statement of main's try block.
gcp_save_audit_logs ==
    /\ pc = "gcp_save_audit_logs"
    /\ \/ /\ files' = WriteFile(GCP_FILE, PyList(logs))
          /\ saved' = Append(saved, GCP_FILE)
          /\ gcpCalls' = Append(gcpCalls, GcpCall("save_audit_logs", GCP_FILE, "saved"))
          /\ pc' = "gcp_returned"
          /\ UNCHANGED <<raised, gcpError>>
       \/ /\ gcpCalls' = Append(gcpCalls, GcpCall("save_audit_logs", GCP_FILE, "raised"))
          /\ GcpRaise("OSError")
          /\ UNCHANGED <<files, saved>>
    /\ UNCHANGED <<files0, called, apiState, enableRequests, gcpRun, max_results,
                   filter_str, logs,
                   azVars, entraVars, awsVars>>

\* main has returned: its locals and the record of its calls are gone.
GcpForget ==
    /\ gcpCalls' = <<>>
    /\ logs' = <<>>

\* CloudLogCollector.py: get_gcp_logs calls gcp_audit_logs.main.
get_gcp_logs ==
    /\ pc = "get_gcp_logs"
    /\ called' = Append(called, "gcp")
    /\ GcpEnter
    /\ UNCHANGED <<files, files0, saved, raised, apiState, enableRequests, max_results, filter_str,
                   azVars, entraVars, awsVars>>

\* main called once more, by itself, after it returned.
gcp_main_again ==
    /\ pc = "gcp_returned"
    /\ gcpRun < MaxRuns
    /\ called' = Append(called, "gcp")
    /\ GcpEnter
    /\ UNCHANGED <<files, files0, saved, raised, apiState, enableRequests, max_results, filter_str,
                   azVars, entraVars, awsVars>>

GcpNext ==
    \/ gcp_get_service
    \/ gcp_enable_service
    \/ gcp_operation_result
    \/ gcp_get_organization_id
    \/ gcp_get_audit_logs
    \/ gcp_save_audit_logs


\* ======================================================= azure_activity_logs
\* The HTTP statuses the management and graph endpoints answer with.
Statuses == {200, 204, 403, 500}

\* The subscriptions the identity can see, and the listings the endpoint may
\* give: any of them, in any order, none twice.
Subs == 1..MaxSubs
Listings ==
    {l \in UNION {[1..n -> Subs] : n \in 0..MaxSubs} :
        \A i, j \in DOMAIN l : i # j => l[i] # l[j]}

\* The activity-log entries a subscription holds in the window, in response
\* order; the same eventDataId occurs under several subscriptions.
AzureEntries(sub) == [i \in 1..((sub % 2) + 1) |-> [eventDataId |-> i]]

\* list_subscriptions: the listing's "value" on 200, else an empty list.
ListSubscriptionsResult(status, listing) ==
    IF status = HTTP_OK
    THEN [i \in DOMAIN listing |-> [subscriptionId |-> listing[i]]]
    ELSE <<>>

\* Mutant: the body's "value" is returned whatever the status.
CollectIgnoresStatus(status, entries) == entries

\* collect_audit_logs: the response's "value" on 200, else an empty list.
CollectAuditLogsResult(status, entries) ==
    IF status = HTTP_OK THEN entries ELSE <<>>

AzReq(url, sub, status) == [url |-> url, sub |-> sub, status |-> status]

\* CloudLogCollector.py: get_azure_logs calls azure_activity_logs.main, which
\* starts with get_access_token.
get_azure_logs ==
    /\ pc = "gcp_returned"
    /\ called' = Append(called, "azure")
    /\ GcpForget
    /\ \/ /\ pc' = "az_list_subscriptions"
          /\ UNCHANGED raised
       \/ Crash("CredentialUnavailableError")
    /\ UNCHANGED <<files, files0, saved, apiState, enableRequests, gcpRun, max_results, filter_str,
                   gcpError, azVars, entraVars, awsVars>>

\* main: subscriptions = list_subscriptions(headers); all_audit_logs = [].
az_list_subscriptions ==
    /\ pc = "az_list_subscriptions"
    /\ \/ \E status \in Statuses, listing \in Listings :
             /\ subscriptions' = ListSubscriptionsResult(status, listing)
             /\ azReqs' = Append(azReqs, AzReq("subscriptions", 0, status))
             /\ subIdx' = 0
             /\ all_audit_logs' = <<>>
             /\ pc' = "az_for_subscription"
             /\ UNCHANGED raised
       \/ /\ azReqs' = Append(azReqs, AzReq("subscriptions", 0, 0))
          /\ Crash("ConnectionError")
          /\ UNCHANGED <<subscriptions, subIdx, all_audit_logs>>
    /\ UNCHANGED <<files, files0, called, saved, gcpVars, entraVars, awsVars>>

\* main's for loop, one subscription: collect_audit_logs, then extend.
az_collect_audit_logs ==
    /\ pc = "az_for_subscription"
    /\ subIdx < Len(subscriptions)
    /\ LET subscription_id == subscriptions[subIdx + 1].subscriptionId IN
       \/ \E status \in Statuses :
             /\ azReqs' = Append(azReqs, AzReq("activity", subscription_id, status))
             /\ all_audit_logs' =
                    Extend(all_audit_logs,
                           CollectAuditLogsResult(status, AzureEntries(subscription_id)))
             /\ subIdx' = subIdx + 1
             /\ UNCHANGED <<pc, raised>>
       \/ /\ azReqs' = Append(azReqs, AzReq("activity", subscription_id, 0))
          /\ Crash("ConnectionError")
          /\ UNCHANGED <<subIdx, all_audit_logs>>
    /\ UNCHANGED <<files, files0, called, saved, subscriptions, gcpVars, entraVars, awsVars>>

\* main returns all_audit_logs and get_azure_logs saves it.
azure_save_audit_logs ==
    /\ pc = "az_for_subscription"
    /\ subIdx = Len(subscriptions)
    /\ \/ /\ files' = WriteFile(AZURE_FILE, PyList(all_audit_logs))
          /\ saved' = Append(saved, AZURE_FILE)
          /\ pc' = "azure_returned"
          /\ UNCHANGED raised
       \/ /\ Crash("OSError")
          /\ UNCHANGED <<files, saved>>
    /\ UNCHANGED <<files0, called, gcpVars, azVars, entraVars, awsVars>>

\* get_azure_logs has returned: its locals and the record of its requests
\* are gone.
AzureForget ==
    /\ subscriptions' = <<>>
    /\ subIdx' = 0
    /\ all_audit_logs' = <<>>
    /\ azReqs' = <<>>

AzureNext ==
    \/ get_azure_logs
    \/ az_list_subscriptions
    \/ az_collect_audit_logs
    \/ azure_save_audit_logs

\* ======================================================= entraid_signin_logs
\* JSON bodies as Python values: the graph endpoint's object with its "value"
\* list, the empty object, and null (Python's None).
GraphBody(n) == [kind |-> "dict", keys |-> <<"@odata.context", "value">>,
                 value |-> [i \in 1..n |-> [id |-> i]]]
EmptyDict == [kind |-> "dict", keys |-> <<>>, value |-> <<>>]
PyNone == [kind |-> "None", keys |-> <<>>, value |-> <<>>]
EmptyList == PyList(<<>>)
Bodies == {GraphBody(0), GraphBody(1), EmptyDict, PyNone}

\* Python truthiness of such a value: None and empty containers are falsy.
Truthy(v) == v.kind # "None" /\ v.keys # <<>>

\* get_sign_in_logs: response.json() on 200, else None.
GetSignInLogsResult(status, body) == IF status = HTTP_OK THEN body ELSE PyNone

\* Mutant: main returns what get_sign_in_logs returned.
EntraMainReturnsAsIs(got) == got

\* main: if sign_in_logs: return sign_in_logs; return [].
EntraMainResult(got) == IF Truthy(got) THEN got ELSE EmptyList

\* CloudLogCollector.py: get_entra_id_signin_logs calls main, whose
\* get_sign_in_logs starts with get_access_token.
get_entra_id_signin_logs ==
    /\ pc = "azure_returned"
    /\ called' = Append(called, "entra")
    /\ AzureForget
    /\ \/ /\ pc' = "entra_get_sign_in_logs"
          /\ UNCHANGED raised
       \/ Crash("CredentialUnavailableError")
    /\ UNCHANGED <<files, files0, saved, gcpVars, entraVars, awsVars>>

\* get_sign_in_logs's request, and main's coercion of what it returns.
entra_get_sign_in_logs ==
    /\ pc = "entra_get_sign_in_logs"
    /\ \/ \E status \in Statuses, body \in Bodies :
             /\ entraReqs' = Append(entraReqs, [status |-> status, body |-> body])
             /\ sign_in_logs' = EntraMainResult(GetSignInLogsResult(status, body))
             /\ pc' = "entra_save_sign_in_logs"
             /\ UNCHANGED raised
       \/ /\ entraReqs' = Append(entraReqs, [status |-> 0, body |-> PyNone])
          /\ Crash("ConnectionError")
          /\ UNCHANGED sign_in_logs
    /\ UNCHANGED <<files, files0, called, saved, gcpVars, azVars, awsVars>>

\* get_entra_id_signin_logs saves what main returned.
entra_save_sign_in_logs ==
    /\ pc = "entra_save_sign_in_logs"
    /\ \/ /\ files' = WriteFile(ENTRA_FILE, sign_in_logs)
          /\ saved' = Append(saved, ENTRA_FILE)
          /\ pc' = "entra_returned"
          /\ UNCHANGED raised
       \/ /\ Crash("OSError")
          /\ UNCHANGED <<files, saved>>
    /\ UNCHANGED <<files0, called, gcpVars, azVars, entraVars, awsVars>>

\* get_entra_id_signin_logs has returned: its locals and the record of its
\* requests are gone.
EntraForget ==
    /\ entraReqs' = <<>>
    /\ sign_in_logs' = PyNone

EntraNext ==
    \/ get_entra_id_signin_logs
    \/ entra_get_sign_in_logs
    \/ entra_save_sign_in_logs


\* ===================================================== aws_cloudtrail_events
\* None as a token, and the truthiness get_cloudtrail_logs tests tokens with.
NoToken == <<>>
TokenTruthy(tok) == tok # NoToken

\* What the provider holds.  Accounts are named by their index in
\* account_list, regions by their index in the account's region list.
\* The first account has MaxRegions regions enabled, the others one.
Regions(a) == [i \in 1..(IF a = 1 THEN MaxRegions ELSE 1) |-> i]
NumPages(a, r) == ((a + r) % MaxPages) + 1
\* The events of page p of region r of account a, as lookup_events gives them:
\* some pages are empty, the second event of a page has no CloudTrailEvent,
\* and a CloudTrailEvent is a JSON string json.loads accepts.
EventsOf(a, r, p) ==
    [i \in 1..((2 * a + r + p) % 3) |->
        [id |-> <<a, r, p, i>>,
         CloudTrailEvent |-> IF i = 2 THEN "absent" ELSE "json string",
         EventTime |-> "datetime"]]
\* The token that stands for "continue at page p of region r of account a".
TokenFor(a, r, p) == <<a, r, p>>
\* The page a request asks for: the first without a token, the token's page
\* with a token of this account and region, none (0) with any other token.
PageAsked(a, r, tok) ==
    IF tok = NoToken THEN 1
    ELSE IF tok[1] = a /\ tok[2] = r THEN tok[3] ELSE 0
\* The NextToken of page p's response; NoToken when the response has none.
NextTokenOf(a, r, p) ==
    IF p < NumPages(a, r) THEN TokenFor(a, r, p + 1) ELSE NoToken

\* The errors botocore raises as ClientError, and one it does not.
ClientErrorCodes == {"UnrecognizedClientException", "AccessDeniedException"}
OtherErrors == {"EndpointConnectionError"}

\* Mutant: the handler takes UnrecognizedClientException alone.
RegionLoopCatchesUnrecognizedOnly(err) == err = "UnrecognizedClientException"

\* The handler of the while loop's try block: except ClientError.
RegionLoopCatches(err) == err \in ClientErrorCodes

\* Mutant: a failed account is skipped and the loop goes on.
AccountLoopSkipsAccount(err) == TRUE

\* The account loop's body outside the while loop has no handler.
AccountLoopCatches(err) == FALSE

\* Lines 98-103: the embedded JSON string is parsed, the datetime is
\* formatted; a field that is absent stays absent.
Normalize(e) ==
    [e EXCEPT !.CloudTrailEvent = IF @ = "absent" THEN @ ELSE "parsed",
              !.EventTime = IF @ = "absent" THEN @ ELSE "isoformat"]
NormalizeAll(events) == [i \in DOMAIN events |-> Normalize(events[i])]

\* The token lookup_events is called with: NextToken only when it is truthy.
RequestToken(tok) == IF TokenTruthy(tok) THEN tok ELSE NoToken

\* Mutant: the loop is left after the first response.
LoopStopsAfterFirstPage(tok) == FALSE

\* Line 112: the while loop goes on only with a truthy NextToken.
LoopContinues(tok) == TokenTruthy(tok)

AwsReq(call, a, r, tok, outcome, next) ==
    [call |-> call, acct |-> a, region |-> r, token |-> tok,
     outcome |-> outcome, next |-> next]

\* Mutant: next_token is not reset when a region's loop starts.
RegionStartKeepsToken(tok) == tok

\* Line 80: next_token = None before the while loop of every region, whatever
\* the variable held when the previous region's loop was left.
RegionStartToken(tok) == NoToken

\* The while loop of a region is left (break) with next_token = tok: the next
\* region starts with line 80, after the last region the next account starts
\* (next_token keeps its value until that account's first region), after the
\* last account get_cloudtrail_logs returns all_events and its locals are gone.
LeaveRegion(tok) ==
    IF regionIdx < Len(regions)
    THEN /\ regionIdx' = regionIdx + 1
         /\ next_token' = RegionStartToken(tok)
         /\ pc' = "aws_lookup_events"
         /\ UNCHANGED <<acctIdx, regions>>
    ELSE /\ IF acctIdx < Len(AccountList)
            THEN /\ acctIdx' = acctIdx + 1
                 /\ next_token' = tok
                 /\ pc' = "aws_assume_role"
            ELSE /\ pc' = "aws_save_cloudtrail_logs"
                 /\ next_token' = NoToken
                 /\ UNCHANGED acctIdx
         /\ UNCHANGED <<regionIdx, regions>>

\* An exception in the account loop's body, outside the while loop.
AccountLoopRaise(err) ==
    IF AccountLoopCatches(err)
    THEN /\ IF acctIdx < Len(AccountList)
            THEN /\ acctIdx' = acctIdx + 1
                 /\ pc' = "aws_assume_role"
            ELSE /\ pc' = "aws_save_cloudtrail_logs"
                 /\ UNCHANGED acctIdx
         /\ UNCHANGED raised
    ELSE /\ Crash(err)
         /\ UNCHANGED acctIdx

\* CloudLogCollector.py: get_aws_cloudtrail_events calls main, which calls
\* get_cloudtrail_logs: all_events = [] and the first account.
get_aws_cloudtrail_events ==
    /\ pc = "entra_returned"
    /\ called' = Append(called, "aws")
    /\ EntraForget
    /\ all_events' = <<>>
    /\ acctIdx' = 1
    /\ pc' = "aws_assume_role"
    /\ UNCHANGED <<files, files0, saved, raised, regions, regionIdx, next_token, awsReqs,
                   gcpVars, azVars>>

\* session = assume_role(account_id, role_name)
aws_assume_role ==
    /\ pc = "aws_assume_role"
    /\ \/ /\ awsReqs' = Append(awsReqs,
                 AwsReq("assume_role", acctIdx, 0, NoToken, "ok", NoToken))
          /\ pc' = "aws_describe_regions"
          /\ UNCHANGED <<raised, acctIdx>>
       \/ /\ awsReqs' = Append(awsReqs,
                 AwsReq("assume_role", acctIdx, 0, NoToken, "AccessDenied", NoToken))
          /\ AccountLoopRaise("AccessDenied")
    /\ UNCHANGED <<files, files0, called, saved, regions, regionIdx, next_token,
                   all_events, gcpVars, azVars, entraVars>>

\* regions = [...describe_regions()...]; the first region's loop starts with
\* next_token = None.
aws_describe_regions ==
    /\ pc = "aws_describe_regions"
    /\ \/ /\ awsReqs' = Append(awsReqs,
                 AwsReq("describe_regions", acctIdx, 0, NoToken, "ok", NoToken))
          /\ regions' = Regions(acctIdx)
          /\ regionIdx' = 1
          /\ next_token' = RegionStartToken(next_token)
          /\ pc' = "aws_lookup_events"
          /\ UNCHANGED <<raised, acctIdx>>
       \/ /\ awsReqs' = Append(awsReqs,
                 AwsReq("describe_regions", acctIdx, 0, NoToken, "UnauthorizedOperation", NoToken))
          /\ AccountLoopRaise("UnauthorizedOperation")
          /\ UNCHANGED <<regions, regionIdx, next_token>>
    /\ UNCHANGED <<files, files0, called, saved, all_events, gcpVars, azVars, entraVars>>

\* One pass of the while loop: a lookup_events request and what follows it.
aws_lookup_events ==
    /\ pc = "aws_lookup_events"
    /\ LET a == acctIdx
           r == regions[regionIdx]
           tok == RequestToken(next_token)
           p == PageAsked(a, r, tok)
       IN
       \/ \* the provider answers with the page asked for
          /\ p \in 1..NumPages(a, r)
          /\ awsReqs' = Append(awsReqs,
                 AwsReq("lookup_events", a, r, tok, "ok", NextTokenOf(a, r, p)))
          /\ all_events' = Extend(all_events, NormalizeAll(EventsOf(a, r, p)))
          /\ IF LoopContinues(NextTokenOf(a, r, p))
             THEN /\ next_token' = NextTokenOf(a, r, p)
                  /\ UNCHANGED <<pc, acctIdx, regions, regionIdx>>
             ELSE LeaveRegion(NextTokenOf(a, r, p))
          /\ UNCHANGED raised
       \/ \* the request fails with a ClientError (the only answer to a token
          \* that is not this region's); the code is printed, not kept
          \E err \in ClientErrorCodes :
             /\ awsReqs' = Append(awsReqs,
                    AwsReq("lookup_events", a, r, tok, "ClientError", NoToken))
             /\ IF RegionLoopCatches(err)
                THEN /\ LeaveRegion(next_token)
                     /\ UNCHANGED raised
                ELSE /\ Crash(err)
                     /\ UNCHANGED <<acctIdx, regions, regionIdx, next_token>>
             /\ UNCHANGED all_events
       \/ \* the request fails with an exception that is no ClientError
          \E err \in OtherErrors :
             /\ awsReqs' = Append(awsReqs,
                    AwsReq("lookup_events", a, r, tok, err, NoToken))
             /\ IF RegionLoopCatches(err)
                THEN /\ LeaveRegion(next_token)
                     /\ UNCHANGED raised
                ELSE /\ Crash(err)
                     /\ UNCHANGED <<acctIdx, regions, regionIdx, next_token>>
             /\ UNCHANGED all_events
    /\ UNCHANGED <<files, files0, called, saved, gcpVars, azVars, entraVars>>

\* main returns all_events and get_aws_cloudtrail_events saves it.
aws_save_cloudtrail_logs ==
    /\ pc = "aws_save_cloudtrail_logs"
    /\ \/ /\ files' = WriteFile(AWS_FILE, PyList(all_events))
          /\ saved' = Append(saved, AWS_FILE)
          /\ pc' = "done"
          /\ UNCHANGED raised
       \/ /\ Crash("OSError")
          /\ UNCHANGED <<files, saved>>
    /\ UNCHANGED <<files0, called, gcpVars, azVars, entraVars, awsVars>>

AwsNext ==
    \/ get_aws_cloudtrail_events
    \/ aws_assume_role
    \/ aws_describe_regions
    \/ aws_lookup_events
    \/ aws_save_cloudtrail_logs

\* ============================================================ specifications
InitLocals ==
    /\ called = <<>>
    /\ enableRequests = 0
    /\ saved = <<>>
    /\ raised = None
    /\ gcpRun = 0
    /\ gcpCalls = <<>>
    /\ logs = <<>>
    /\ gcpError = None
    /\ subscriptions = <<>>
    /\ subIdx = 0
    /\ all_audit_logs = <<>>
    /\ azReqs = <<>>
    /\ entraReqs = <<>>
    /\ sign_in_logs = PyNone
    /\ acctIdx = 0
    /\ regions = <<>>
    /\ regionIdx = 0
    /\ next_token = NoToken
    /\ all_events = <<>>
    /\ awsReqs = <<>>

\* The output files are all there from an earlier run, or none is.
InitFiles ==
    /\ \E before \in {Absent, Stale} : files = [f \in FileNames |-> before]
    /\ files0 = files

\* The orchestrator's __main__ block, from its first call: the four modules
\* are imported (gcp_audit_logs has loaded its default credentials).
Init ==
    /\ pc = "get_gcp_logs"
    /\ InitFiles
    /\ apiState \in {"ENABLED", "DISABLED"}
    /\ max_results = ORCH_MAX_RESULTS
    /\ filter_str = None
    /\ InitLocals

Next == get_gcp_logs \/ GcpNext \/ AzureNext \/ EntraNext \/ AwsNext

Spec == Init /\ [][Next]_vars

\* gcp_audit_logs.main alone, run MaxRuns times against the same project.
InitGcp ==
    /\ pc = "gcp_returned"
    /\ InitFiles
    /\ apiState \in {"ENABLED", "DISABLED"}
    /\ max_results \in 1..MaxEntries
    /\ filter_str \in {None, "", "severity>=ERROR"}
    /\ InitLocals

NextGcp == gcp_main_again \/ GcpNext

SpecGcp == InitGcp /\ [][NextGcp]_vars


\* =================================================== properties: AWS collector
\* The account/region pairs in the order get_cloudtrail_logs visits them.
PairsFrom(a) ==
    [i \in 1..Len(Regions(a)) |-> <<a, Regions(a)[i]>>]
Pairs == Concat([a \in 1..Len(AccountList) |-> PairsFrom(a)], 1, Len(AccountList))
PairIndex(a, r) == CHOOSE i \in DOMAIN Pairs : Pairs[i] = <<a, r>>

\* The places in awsReqs of the lookup_events requests of a pair, and the
\* requests themselves in request order.
LookupPlaces(a, r) ==
    {i \in DOMAIN awsReqs : /\ awsReqs[i].call = "lookup_events"
                            /\ awsReqs[i].acct = a
                            /\ awsReqs[i].region = r}
IsLookupOf(q, a, r) == q.call = "lookup_events" /\ q.acct = a /\ q.region = r
LookupsOf(a, r) == SelectSeq(awsReqs, LAMBDA q : IsLookupOf(q, a, r))
IsFirstOfPair(i) ==
    /\ awsReqs[i].call = "lookup_events"
    /\ \A j \in LookupPlaces(awsReqs[i].acct, awsReqs[i].region) : j >= i
FailedPlaces == {i \in DOMAIN awsReqs : awsReqs[i].outcome # "ok"}

\* get_cloudtrail_logs has returned all_events to its caller.
AwsReturned == pc \in {"aws_save_cloudtrail_logs", "done"}
\* The while loop of the pair is running / has been left.
Visiting(a, r) ==
    /\ pc = "aws_lookup_events"
    /\ acctIdx = a
    /\ regions[regionIdx] = r
LeftLoop(a, r) == LookupPlaces(a, r) # {} /\ ~Visiting(a, r)

\* What the provider holds for a pair: all its pages' events, normalized.
PagesEvents(a, r, n) ==
    Concat([p \in 1..n |-> NormalizeAll(EventsOf(a, r, p))], 1, n)
PairEvents(a, r) == PagesEvents(a, r, NumPages(a, r))
\* The events of every pair but one, in visiting order.
EventsWithout(a, k) ==
    Concat([i \in 1..Len(Pairs) |->
               IF Pairs[i] = <<a, k>> THEN <<>>
               ELSE PairEvents(Pairs[i][1], Pairs[i][2])],
           1, Len(Pairs))
\* The events in all_events that come from a pair, in their order there.
EventsFrom(a, r) ==
    SelectSeq(all_events, LAMBDA e : e.id[1] = a /\ e.id[2] = r)

\* C1: when the first lookup_events request of a region fails with a provider
\* error (a ClientError), the error does not leave get_cloudtrail_logs, every
\* later region and account is still queried, no event of that region is in
\* the result, and when it is the only failure the result is exactly the
\* events of all pages of all other regions, in visiting order.
C1_RegionErrorIsolation ==
    \A i \in DOMAIN awsReqs :
        (IsFirstOfPair(i) /\ awsReqs[i].outcome = "ClientError") =>
            LET a == awsReqs[i].acct
                k == awsReqs[i].region
            IN  /\ raised \notin ClientErrorCodes
                /\ (i = Len(awsReqs) => pc # "crashed" \/ raised = "OSError")
                /\ LookupPlaces(a, k) = {i}
                /\ EventsFrom(a, k) = <<>>
                /\ AwsReturned =>
                      \A j \in DOMAIN Pairs :
                          LookupPlaces(Pairs[j][1], Pairs[j][2]) # {}
                /\ (AwsReturned /\ FailedPlaces = {i}) =>
                      all_events = EventsWithout(a, k)

\* A run in which only the first request of the first region failed, and the
\* regions and the account after it were collected.
C1_Witness ==
    /\ AwsReturned
    /\ \E i \in DOMAIN awsReqs :
          /\ IsFirstOfPair(i)
          /\ awsReqs[i].outcome = "ClientError"
          /\ FailedPlaces = {i}
          /\ PairIndex(awsReqs[i].acct, awsReqs[i].region) = 1
          /\ PairEvents(awsReqs[i].acct, awsReqs[i].region) # <<>>
    /\ Len(all_events) >= 2

FailedAfterPages(a, r) ==
    LET reqs == LookupsOf(a, r) IN
    /\ Len(reqs) >= 2
    /\ reqs[Len(reqs)].outcome = "ClientError"
    /\ \A j \in 1..(Len(reqs) - 1) : reqs[j].outcome = "ok"

\* C8, as claimed: after a provider error on a later page of a region, none of
\* the region's events is in the returned list.
C8_AsClaimed ==
    \A x \in DOMAIN Pairs :
        (AwsReturned /\ FailedAfterPages(Pairs[x][1], Pairs[x][2])) =>
            EventsFrom(Pairs[x][1], Pairs[x][2]) = <<>>

\* C8, amended: after a provider error (a ClientError) on a later page of a
\* region the loop is left without another request for the region, the error
\* does not leave get_cloudtrail_logs, the events of the pages fetched before
\* the error stay in the result (those of the later pages are missing), and
\* the regions and accounts after it are still queried.
C8_PartialResultsKept ==
    \A x \in DOMAIN Pairs :
        LET a == Pairs[x][1]
            r == Pairs[x][2]
            reqs == LookupsOf(a, r)
        IN  FailedAfterPages(a, r) =>
                /\ ~Visiting(a, r)
                /\ raised \notin ClientErrorCodes
                /\ Len(reqs) <= NumPages(a, r)
                /\ EventsFrom(a, r) = PagesEvents(a, r, Len(reqs) - 1)
                /\ AwsReturned =>
                      \A j \in DOMAIN Pairs :
                          LookupPlaces(Pairs[j][1], Pairs[j][2]) # {}

\* A region failed on its second page after a first page with events, and
\* the run went on to the end.
C8_Witness ==
    /\ AwsReturned
    /\ \E x \in DOMAIN Pairs :
          /\ FailedAfterPages(Pairs[x][1], Pairs[x][2])
          /\ EventsFrom(Pairs[x][1], Pairs[x][2]) # <<>>
          /\ x < Len(Pairs)

\* C6: when assume_role raises for an account, the exception leaves
\* get_cloudtrail_logs and the process: that request is the last one, nothing
\* is returned, save_cloudtrail_logs is not called and aws_events.json is as
\* it was before the run.
C6_AssumeRoleFailurePropagates ==
    \A i \in DOMAIN awsReqs :
        (awsReqs[i].call = "assume_role" /\ awsReqs[i].outcome # "ok") =>
            /\ i = Len(awsReqs)
            /\ pc = "crashed"
            /\ raised = awsReqs[i].outcome
            /\ AWS_FILE \notin {saved[j] : j \in DOMAIN saved}
            /\ files[AWS_FILE] = files0[AWS_FILE]

\* assume_role failed for the second account, after events of the first
\* account had been collected.
C6_Witness ==
    /\ awsReqs # <<>>
    /\ awsReqs[Len(awsReqs)].call = "assume_role"
    /\ awsReqs[Len(awsReqs)].outcome # "ok"
    /\ awsReqs[Len(awsReqs)].acct = 2
    /\ all_events # <<>>
    /\ files[AWS_FILE] = Stale


\* =================================================== properties: GCP collector
SavedFiles == {saved[j] : j \in DOMAIN saved}
GcpCallNames == {gcpCalls[i].call : i \in DOMAIN gcpCalls}
GcpPcs == {"gcp_get_service", "gcp_enable_service", "gcp_operation_result",
           "gcp_search_organizations", "gcp_list_entries", "gcp_save_audit_logs"}
\* The step of main that raised, if one did: the last call made.
GcpFailedCall ==
    IF gcpCalls # <<>> /\ gcpCalls[Len(gcpCalls)].result \in {"raised", "none"}
    THEN gcpCalls[Len(gcpCalls)].call ELSE "no call"

\* C3: no exception leaves gcp_audit_logs.main, whichever step raises; main
\* returns to the orchestrator, whose next statement calls the Azure collector;
\* and when a step before save_audit_logs raised, save_audit_logs was not
\* called and gcp_audit_logs.json is as it was before the run.
C3_GcpFailurePolicy ==
    /\ (called = <<"gcp">>) => (raised = None /\ pc \in GcpPcs \cup {"gcp_returned"})
    /\ (called = <<"gcp">> /\ gcpError # None) =>
          /\ pc = "gcp_returned"
          /\ ENABLED get_azure_logs
          /\ GcpFailedCall # "no call"
    /\ (gcpError \in {"GoogleAPICallError", "Exception"}) =>
          /\ GCP_FILE \notin SavedFiles
          /\ files[GCP_FILE] = files0[GCP_FILE]
          /\ (called = <<"gcp">> => "save_audit_logs" \notin GcpCallNames)
    /\ \A i \in DOMAIN gcpCalls :
          (gcpCalls[i].result \in {"raised", "none"}) =>
              /\ i = Len(gcpCalls)
              /\ gcpError # None

\* No organization was found, the file of the earlier run is still there, and
\* the orchestrator has called the Azure collector.
C3_Witness ==
    /\ gcpError = "Exception"
    /\ Len(called) >= 2
    /\ called[2] = "azure"
    /\ files[GCP_FILE] = Stale
    /\ raised = None

\* The calls of the current run obey the enable protocol.
EnableProtocol ==
    /\ gcpCalls # <<>> => gcpCalls[1].call = "get_service"
    /\ \A i \in DOMAIN gcpCalls :
          /\ (gcpCalls[i].call = "get_service") => i = 1
          /\ (gcpCalls[i].call = "enable_service") =>
                /\ i = 2
                /\ gcpCalls[1].result \notin {"ENABLED", "raised"}
          /\ (gcpCalls[i].call \in {"search_organizations", "list_entries"}) =>
                \/ gcpCalls[1].result = "ENABLED"
                \/ \E j \in 1..(i - 1) :
                      /\ gcpCalls[j].call = "operation.result"
                      /\ gcpCalls[j].result = "done"
          /\ (gcpCalls[i].call = "get_service" /\ gcpCalls[i].result = "ENABLED") =>
                "enable_service" \notin GcpCallNames

\* C9: in every run of main the API's state is read first; enable_service is
\* called only after a state other than ENABLED was read, and at most once in
\* the run; the organization lookup and the log query come only after ENABLED
\* was read or the enable operation has completed; and once the API is
\* enabled no step, of this run or of a later one, issues an enable request.
C9_EnableProtocol ==
    /\ []EnableProtocol
    /\ [][apiState = "ENABLED" => enableRequests' = enableRequests]_vars

\* A second run of main that read ENABLED and went on to the organization
\* lookup, after the first run had enabled the API.
C9_Witness ==
    /\ gcpRun = 2
    /\ enableRequests = 1
    /\ Len(gcpCalls) >= 2
    /\ gcpCalls[1].result = "ENABLED"
    /\ gcpCalls[2].call = "search_organizations"


\* ================================================= properties: Azure collector
\* A status that is no success status (0 stands for no response at all).
NonSuccess(status) == status >= 300
\* main's for loop is over: all_audit_logs is what main returns.
AzureReturns ==
    \/ pc = "az_for_subscription" /\ subIdx = Len(subscriptions)
    \/ pc = "azure_returned"
\* The request made for the i-th listed subscription, and what the endpoint
\* held for it.
SubReq(i) == azReqs[i + 1]
HeldFor(i) == AzureEntries(subscriptions[i].subscriptionId)
\* The entries of the first n listed subscriptions that answered 200.
EntriesOfSuccessful(n) ==
    Concat([i \in 1..n |-> IF SubReq(i).status = HTTP_OK THEN HeldFor(i) ELSE <<>>],
           1, n)
RECURSIVE SumLen(_, _)
SumLen(f, n) == IF n = 0 THEN 0 ELSE Len(f[n]) + SumLen(f, n - 1)

\* C4: a non-success status of the subscription listing gives an empty
\* subscription list and an empty result, without an exception; a non-success
\* status of one subscription's log query adds nothing to the result, raises
\* nothing, and every other listed subscription is still queried and its
\* entries returned.
C4_AzureNonSuccess ==
    /\ (azReqs # <<>> /\ NonSuccess(azReqs[1].status)) =>
          /\ subscriptions = <<>>
          /\ all_audit_logs = <<>>
          /\ Len(azReqs) = 1
          /\ AzureReturns \/ raised = "OSError"
    /\ \A i \in 1..(Len(azReqs) - 1) :
          NonSuccess(SubReq(i).status) =>
              /\ subIdx >= i
              /\ raised \in {None, "OSError"} \/ i < Len(azReqs) - 1
              /\ all_audit_logs = EntriesOfSuccessful(subIdx)
    /\ AzureReturns =>
          /\ Len(azReqs) = 1 + Len(subscriptions)
          /\ \A i \in 1..Len(subscriptions) :
                SubReq(i).sub = subscriptions[i].subscriptionId
          /\ all_audit_logs = EntriesOfSuccessful(Len(subscriptions))

\* The first of two subscriptions answered 403, the second 200, and main
\* returns the second one's entries.
C4_Witness ==
    /\ AzureReturns
    /\ Len(subscriptions) = 2
    /\ SubReq(1).status = 403
    /\ SubReq(2).status = HTTP_OK
    /\ all_audit_logs = HeldFor(2)
    /\ all_audit_logs # <<>>

\* C10: all_audit_logs is the concatenation, in listing order, of what
\* collect_audit_logs returned for each subscription the loop has finished,
\* each queried exactly once and its entries in response order, nothing
\* removed; its length is the sum of the lengths returned.
C10_AzureAccumulationOrder ==
    (pc \in {"az_for_subscription", "azure_returned"}) =>
        LET returned == [i \in 1..subIdx |->
                            CollectAuditLogsResult(SubReq(i).status, HeldFor(i))]
        IN  /\ Len(azReqs) = 1 + subIdx
            /\ \A i \in 1..subIdx :
                  /\ SubReq(i).url = "activity"
                  /\ SubReq(i).sub = subscriptions[i].subscriptionId
            /\ all_audit_logs = Concat(returned, 1, subIdx)
            /\ Len(all_audit_logs) = SumLen(returned, subIdx)
            /\ AzureReturns => subIdx = Len(subscriptions)

\* Subscriptions 2 and 1, listed in that order, both answered: the result is
\* the entries of 2, then those of 1, the shared eventDataId kept twice.
C10_Witness ==
    /\ pc = "azure_returned"
    /\ Len(subscriptions) = 2
    /\ subscriptions[1].subscriptionId = 2
    /\ all_audit_logs = AzureEntries(2) \o AzureEntries(1)
    /\ Len(all_audit_logs) = 3
    /\ all_audit_logs[1] = all_audit_logs[2]

\* ============================================== properties: Entra ID collector
\* main has returned sign_in_logs after the response entraReqs[1].
EntraAnswered == entraReqs # <<>> /\ entraReqs[1].status # 0

\* C5, as claimed: None is coerced to an empty sequence on a non-success
\* response, a success response's body is returned unchanged, and an empty
\* sequence is returned only on failure.
C5_AsClaimed ==
    EntraAnswered =>
        /\ (entraReqs[1].status # HTTP_OK) => sign_in_logs = EmptyList
        /\ (entraReqs[1].status = HTTP_OK) => sign_in_logs = entraReqs[1].body
        /\ (sign_in_logs = EmptyList) => entraReqs[1].status # HTTP_OK

\* C5, amended: main never returns None and an HTTP status never makes it
\* raise; on a status other than 200 it returns an empty sequence; on 200 it
\* returns the body unchanged when the body is truthy, and an empty sequence
\* when the body is empty or null.
C5_EntraResultContract ==
    /\ (pc \in {"entra_save_sign_in_logs", "entra_returned"}) => EntraAnswered
    /\ EntraAnswered =>
        /\ sign_in_logs # PyNone
        /\ raised \in {None, "OSError"}
        /\ (entraReqs[1].status # HTTP_OK) => sign_in_logs = EmptyList
        /\ (entraReqs[1].status = HTTP_OK /\ Truthy(entraReqs[1].body)) =>
              sign_in_logs = entraReqs[1].body
        /\ (sign_in_logs = EmptyList) <=>
              (entraReqs[1].status # HTTP_OK \/ ~Truthy(entraReqs[1].body))

\* A 403 answer was turned into an empty sequence and saved.
C5_Witness ==
    /\ pc = "entra_returned"
    /\ entraReqs[1].status = 403
    /\ sign_in_logs = EmptyList
    /\ files[ENTRA_FILE].data = EmptyList


\* ================================================== properties: orchestrator
FileOf(c) ==
    CASE c = "gcp" -> GCP_FILE
      [] c = "azure" -> AZURE_FILE
      [] c = "entra" -> ENTRA_FILE
      [] c = "aws" -> AWS_FILE
\* The run is over: the last statement was reached, or an exception ended it.
RunOver == pc \in {"done", "crashed"}

\* C7, as claimed: whatever happens in one collector, an uncaught exception
\* included, every collector has been invoked by the end of the run.
C7_AsClaimed == RunOver => called = Collectors

\* C7, amended: the collectors are invoked in the order GCP, Azure, Entra ID,
\* AWS, at most once each, and a file is written only by its own provider's
\* save.  A failure a collector handles itself does not stop the run: every
\* collector that returned has its file written (GCP's only when main logged
\* no exception), and the next collector is invoked.  An uncaught exception
\* ends the run: it never comes from the GCP collector, the file of the
\* collector it came from is not written, and no later collector is invoked.
C7_ProviderIndependence ==
    /\ Len(called) <= Len(Collectors)
    /\ \A i \in DOMAIN called : called[i] = Collectors[i]
    /\ \A f \in FileNames : f \notin SavedFiles => files[f] = files0[f]
    /\ \A i, j \in DOMAIN saved : i # j => saved[i] # saved[j]
    /\ \A i \in DOMAIN Collectors :
          FileOf(Collectors[i]) \in SavedFiles => i <= Len(called)
    /\ \A i \in 1..(Len(called) - 1) :
          IF i = 1 THEN (GCP_FILE \in SavedFiles) <=> (gcpError = None)
          ELSE FileOf(called[i]) \in SavedFiles
    /\ (pc = "crashed") <=> (raised # None)
    /\ (pc = "done") =>
          /\ called = Collectors
          /\ {AZURE_FILE, ENTRA_FILE, AWS_FILE} \subseteq SavedFiles
          /\ (GCP_FILE \in SavedFiles) <=> (gcpError = None)
    /\ (pc = "crashed") =>
          /\ Len(called) >= 2
          /\ FileOf(called[Len(called)]) \notin SavedFiles

\* The GCP collector failed and wrote nothing; the three others ran after it
\* and wrote their files.
C7_Witness ==
    /\ pc = "done"
    /\ gcpError # None
    /\ saved = <<AZURE_FILE, ENTRA_FILE, AWS_FILE>>
    /\ files[GCP_FILE] = Stale

\* The lookup_events request made just before the one at place i for the same
\* pair (only asked when there is one).
PrevOfPair(i) ==
    CHOOSE j \in LookupPlaces(awsReqs[i].acct, awsReqs[i].region) :
        /\ j < i
        /\ \A k \in LookupPlaces(awsReqs[i].acct, awsReqs[i].region) :
               k < i => k <= j
\* The tokens the provider has returned for a pair so far.
TokensReturnedFor(a, r) ==
    {awsReqs[j].next : j \in {k \in LookupPlaces(a, r) :
                                 /\ awsReqs[k].outcome = "ok"
                                 /\ awsReqs[k].next # NoToken}}

\* C11: the first lookup_events request of every account/region pair carries
\* no token; every later request of the pair follows a successful response of
\* the pair and carries exactly the token that response returned; no request
\* carries a token returned for another pair, also when the previous region
\* was left by a ClientError while a token was held; and while a pair's loop
\* runs, next_token is None before its first request and the last response's
\* token after it.
C11_TokenThreading ==
    /\ \A i \in DOMAIN awsReqs :
          awsReqs[i].call = "lookup_events" =>
             /\ IF IsFirstOfPair(i)
                THEN awsReqs[i].token = NoToken
                ELSE /\ awsReqs[PrevOfPair(i)].outcome = "ok"
                     /\ awsReqs[PrevOfPair(i)].next # NoToken
                     /\ awsReqs[i].token = awsReqs[PrevOfPair(i)].next
             /\ \A x \in DOMAIN Pairs :
                   Pairs[x] # <<awsReqs[i].acct, awsReqs[i].region>> =>
                      awsReqs[i].token \notin TokensReturnedFor(Pairs[x][1], Pairs[x][2])
    /\ \A x \in DOMAIN Pairs :
          Visiting(Pairs[x][1], Pairs[x][2]) =>
             LET reqs == LookupsOf(Pairs[x][1], Pairs[x][2])
             IN  IF reqs = <<>>
                 THEN next_token = NoToken
                 ELSE /\ reqs[Len(reqs)].outcome = "ok"
                      /\ next_token = reqs[Len(reqs)].next
                      /\ next_token # NoToken

\* A region's loop was left by a ClientError on a request that carried a
\* token, and the next pair has since been asked for its first page.
C11_Witness ==
    \E x \in 1..(Len(Pairs) - 1) :
       LET reqs == LookupsOf(Pairs[x][1], Pairs[x][2])
           after == LookupsOf(Pairs[x + 1][1], Pairs[x + 1][2])
       IN  /\ Len(reqs) >= 2
           /\ reqs[Len(reqs)].outcome = "ClientError"
           /\ reqs[Len(reqs)].token # NoToken
           /\ reqs[Len(reqs)].token = reqs[Len(reqs) - 1].next
           /\ after # <<>>
           /\ after[1].token = NoToken

====
